---- MODULE Spec2Model ----
(***************************************************************************)
(* A model of the Users/Todos REST service: the expiration evaluator, the  *)
(* todo and user services over their repositories, the relational store    *)
(* they write to, and the error handler that turns failures into HTTP      *)
(* statuses.  Each request handler is a sequence of steps, one per store   *)
(* call it awaits; the synchronous code that follows a store call belongs  *)
(* to the same step.                                                       *)
(***************************************************************************)
EXTENDS Integers, Sequences, FiniteSets, TLC

VARIABLES
    users,       \* the rows of the User table
    todos,       \* the rows of the Todo table
    nextUserId,  \* the User table's id sequence
    nextTodoId,  \* the Todo table's id sequence
    now,         \* the clock, in milliseconds since the epoch
    nodeEnv,     \* env.NODE_ENV
    pc,          \* per request in flight: the store call it awaits
    req,         \* per request in flight: its input and the locals of its handler
    resp         \* per request: the response sent

vars == <<users, todos, nextUserId, nextTodoId, now, nodeEnv, pc, req, resp>>

(***************************************************************************)
(* Optional values.  A field that is null in the store, or undefined in a  *)
(* request, is None; a present value v is Some(v).                         *)
(***************************************************************************)
None == <<>>
Some(v) == <<v>>
IsSome(o) == o # None
Val(o) == o[1]

Procs == {"r1", "r2"}

(***************************************************************************)
(* JavaScript truthiness of the values the guards test.                    *)
(***************************************************************************)
\* !date: a Date object is truthy whatever instant it holds; only null is falsy
TruthyDate(o) == IsSome(o)
\* !number: null and 0 are falsy
TruthyNumber(o) == IsSome(o) /\ Val(o) # 0

(***************************************************************************)
(* calculateExpiration(startedTime, duration), evaluated when the clock    *)
(* (new Date()) reads n.  Instants are milliseconds since the epoch, the   *)
(* duration is in minutes.  The outcome is "true", "false", or "TypeError" *)
(* (startedTime.getTime() on null).                                        *)
(***************************************************************************)
calculateExpirationNoStartGuard(startedTime, duration, n) ==
    IF ~TruthyNumber(duration) THEN "false"
    ELSE IF startedTime = None THEN "TypeError"
    ELSE IF n > Val(startedTime) + Val(duration) * 60 * 1000 THEN "true" ELSE "false"

calculateExpirationInclusive(startedTime, duration, n) ==
    IF ~TruthyDate(startedTime) \/ ~TruthyNumber(duration) THEN "false"
    ELSE IF n >= Val(startedTime) + Val(duration) * 60 * 1000 THEN "true" ELSE "false"

calculateExpiration(startedTime, duration, n) ==
    IF ~TruthyDate(startedTime) \/ ~TruthyNumber(duration) THEN "false"
    ELSE IF startedTime = None THEN "TypeError"
    ELSE IF n > Val(startedTime) + Val(duration) * 60 * 1000 THEN "true" ELSE "false"

(***************************************************************************)
(* The clock.                                                              *)
(***************************************************************************)
Tick(instants) ==
    /\ \E t \in instants : t > now /\ now' = t
    /\ UNCHANGED <<users, todos, nextUserId, nextTodoId, nodeEnv, pc, req, resp>>

NoRequest == [op |-> "none"]
NoResponse == [status |-> 0]

Init ==
    /\ users = {}
    /\ todos = {}
    /\ nextUserId = 1
    /\ nextTodoId = 1
    /\ now = 0
    /\ nodeEnv = "development"
    /\ pc = [p \in Procs |-> "idle"]
    /\ req = [p \in Procs |-> NoRequest]
    /\ resp = [p \in Procs |-> NoResponse]

(***************************************************************************)
(* Errors.  An error is its class, the status an AppError carries, its     *)
(* message and, for a known request error of the store client, its code.   *)
(***************************************************************************)
\* `${resource} with id ${identifier} not found`, or `${resource} not found`
\* when the identifier is falsy
NotFoundError(resource, identifier) ==
    [kind |-> "NotFoundError", statusCode |-> 404, code |-> "",
     message |-> IF identifier # 0 THEN <<resource, "with id", identifier, "not found">>
                 ELSE <<resource, "not found">>]

ConflictError(message) ==
    [kind |-> "ConflictError", statusCode |-> 409, code |-> "", message |-> <<message>>]

\* what the store client raises for a failed query: code P2002 for a unique
\* constraint, P2025 for a record an operation depends on and does not find
PrismaClientKnownRequestError(code) ==
    [kind |-> "PrismaClientKnownRequestError", statusCode |-> 0, code |-> code,
     message |-> <<"Invalid invocation", code>>]

TypeError ==
    [kind |-> "TypeError", statusCode |-> 0, code |-> "",
     message |-> <<"Cannot read properties of null">>]

\* The response the handler sends: its status and body, and with them the class
\* (threw) and the code of the error it was given.
IsAppError(error) ==
    error.kind \in {"AppError", "ValidationError", "NotFoundError", "ConflictError"}

errorHandlerOwnMessage(error, env) ==
    IF IsAppError(error)
    THEN [status |-> error.statusCode, success |-> FALSE, threw |-> error.kind,
          message |-> error.message, code |-> "", stack |-> env = "development", details |-> FALSE]
    ELSE IF error.kind = "PrismaClientKnownRequestError" /\ error.code = "P2002"
    THEN [status |-> 409, success |-> FALSE, threw |-> error.kind,
          message |-> <<"A record with this value already exists">>, code |-> error.code,
          stack |-> FALSE, details |-> FALSE]
    ELSE IF error.kind = "PrismaClientKnownRequestError" /\ error.code = "P2025"
    THEN [status |-> 404, success |-> FALSE, threw |-> error.kind,
          message |-> <<"Record not found">>, code |-> error.code, stack |-> FALSE, details |-> FALSE]
    ELSE IF error.kind = "PrismaClientValidationError"
    THEN [status |-> 400, success |-> FALSE, threw |-> error.kind,
          message |-> <<"Invalid input data">>, code |-> "", stack |-> FALSE,
          details |-> env = "development"]
    ELSE [status |-> 500, success |-> FALSE, threw |-> error.kind,
          message |-> error.message,
          code |-> error.code, stack |-> env = "development", details |-> FALSE]

errorHandlerAppErrorsOnly(error, env) ==
    IF IsAppError(error)
    THEN [status |-> error.statusCode, success |-> FALSE, threw |-> error.kind,
          message |-> error.message, code |-> "", stack |-> env = "development", details |-> FALSE]
    ELSE [status |-> 500, success |-> FALSE, threw |-> error.kind,
          message |-> IF env = "production" THEN <<"Internal server error">> ELSE error.message,
          code |-> error.code, stack |-> env = "development", details |-> FALSE]

errorHandlerNoUniqueBranch(error, env) ==
    IF IsAppError(error)
    THEN [status |-> error.statusCode, success |-> FALSE, threw |-> error.kind,
          message |-> error.message, code |-> "", stack |-> env = "development", details |-> FALSE]
    ELSE IF error.kind = "PrismaClientKnownRequestError" /\ error.code = "P2025"
    THEN [status |-> 404, success |-> FALSE, threw |-> error.kind,
          message |-> <<"Record not found">>, code |-> error.code, stack |-> FALSE, details |-> FALSE]
    ELSE [status |-> 500, success |-> FALSE, threw |-> error.kind,
          message |-> IF env = "production" THEN <<"Internal server error">> ELSE error.message,
          code |-> error.code, stack |-> env = "development", details |-> FALSE]

errorHandler(error, env) ==
    IF IsAppError(error)
    THEN [status |-> error.statusCode, success |-> FALSE, threw |-> error.kind,
          message |-> error.message, code |-> "", stack |-> env = "development", details |-> FALSE]
    ELSE IF error.kind = "PrismaClientKnownRequestError" /\ error.code = "P2002"
    THEN [status |-> 409, success |-> FALSE, threw |-> error.kind,
          message |-> <<"A record with this value already exists">>, code |-> error.code,
          stack |-> FALSE, details |-> FALSE]
    ELSE IF error.kind = "PrismaClientKnownRequestError" /\ error.code = "P2025"
    THEN [status |-> 404, success |-> FALSE, threw |-> error.kind,
          message |-> <<"Record not found">>, code |-> error.code, stack |-> FALSE, details |-> FALSE]
    ELSE IF error.kind = "PrismaClientValidationError"
    THEN [status |-> 400, success |-> FALSE, threw |-> error.kind,
          message |-> <<"Invalid input data">>, code |-> "", stack |-> FALSE,
          details |-> env = "development"]
    ELSE [status |-> 500, success |-> FALSE, threw |-> error.kind,
          message |-> IF env = "production" THEN <<"Internal server error">> ELSE error.message,
          code |-> error.code, stack |-> env = "development", details |-> FALSE]

\* res.status(status).json({ success: true, data })
Success(status, data) == [status |-> status, success |-> TRUE, threw |-> "none", data |-> data]

(***************************************************************************)
(* A request's control state.  A handler that throws reaches the error     *)
(* handler through createAsyncHandler's catch(next).                       *)
(***************************************************************************)
CanStart(p) == pc[p] = "idle"

Await(p, label, request) ==
    /\ pc' = [pc EXCEPT ![p] = label]
    /\ req' = [req EXCEPT ![p] = request]
    /\ resp' = [resp EXCEPT ![p] = NoResponse]

Respond(p, request, response) ==
    /\ pc' = [pc EXCEPT ![p] = "done"]
    /\ req' = [req EXCEPT ![p] = request]
    /\ resp' = [resp EXCEPT ![p] = response]

Throw(p, request, error) == Respond(p, request, errorHandler(error, nodeEnv))

\* the response is sent; the next request can arrive
Finish(p) ==
    /\ pc[p] = "done"
    /\ pc' = [pc EXCEPT ![p] = "idle"]
    /\ req' = [req EXCEPT ![p] = NoRequest]
    /\ resp' = [resp EXCEPT ![p] = NoResponse]
    /\ UNCHANGED <<users, todos, nextUserId, nextTodoId, now, nodeEnv>>

(***************************************************************************)
(* The User table: an id drawn from a sequence, a unique email.  Deleting  *)
(* a user deletes the todos that refer to it.                              *)
(***************************************************************************)
UserOf(id) == {u \in users : u.id = id}
UserWithEmail(email) == {u \in users : u.email = email}

\* the unique constraint on email, as the table enforces it on insert and update
EmailTaken(email, exceptId) == \E u \in users : u.email = email /\ u.id # exceptId

\* ON DELETE CASCADE of the Todo.userId foreign key
CascadeTodos(userId) == {t \in todos : t.userId # Some(userId)}

\* UserRepository.findById / findByEmail: prisma.user.findUnique, a row or null
UserRepository_findById(id) ==
    IF UserOf(id) = {} THEN None ELSE Some(CHOOSE u \in UserOf(id) : TRUE)

UserRepository_findByEmail(email) ==
    IF UserWithEmail(email) = {} THEN None ELSE Some(CHOOSE u \in UserWithEmail(email) : TRUE)

\* UserRepository.update: only the supplied fields are written
UserRepository_updateRow(u, data) ==
    [u EXCEPT !.name = IF IsSome(data.name) THEN Val(data.name) ELSE @,
              !.email = IF IsSome(data.email) THEN Val(data.email) ELSE @]

(***************************************************************************)
(* UserService.create: look the email up, then insert.                     *)
(***************************************************************************)
UserCreate_StartNoEmailCheck(p, data) ==
    /\ CanStart(p)
    /\ Await(p, "userCreate_insert", [op |-> "userCreate", data |-> data])
    /\ UNCHANGED <<users, todos, nextUserId, nextTodoId, now, nodeEnv>>

UserCreate_Start(p, data) ==
    /\ CanStart(p)
    /\ LET request == [op |-> "userCreate", data |-> data]
           existingUser == UserRepository_findByEmail(data.email)
       IN  IF IsSome(existingUser)
           THEN Throw(p, request, ConflictError("User with this email already exists"))
           ELSE Await(p, "userCreate_insert", request)
    /\ UNCHANGED <<users, todos, nextUserId, nextTodoId, now, nodeEnv>>

\* UserRepository.create: prisma.user.create
UserCreate_Insert(p) ==
    /\ pc[p] = "userCreate_insert"
    /\ LET data == req[p].data
           row == [id |-> nextUserId, name |-> data.name, email |-> data.email]
       IN  IF EmailTaken(data.email, 0)
           THEN /\ Throw(p, req[p], PrismaClientKnownRequestError("P2002"))
                /\ UNCHANGED users
           ELSE /\ users' = users \cup {row}
                /\ Respond(p, req[p], Success(201, row))
    /\ nextUserId' = nextUserId + 1
    /\ UNCHANGED <<todos, nextTodoId, now, nodeEnv>>

(***************************************************************************)
(* UserService.update: findById, then the email lookup when an email is    *)
(* supplied, then the write.                                               *)
(***************************************************************************)
UserUpdate_Start(p, id, data) ==
    /\ CanStart(p)
    /\ LET request == [op |-> "userUpdate", id |-> id, data |-> data]
       IN  IF UserRepository_findById(id) = None
           THEN Throw(p, request, NotFoundError("User", id))
           ELSE IF IsSome(data.email) /\ Val(data.email) # ""
           THEN Await(p, "userUpdate_findByEmail", request)
           ELSE Await(p, "userUpdate_write", request)
    /\ UNCHANGED <<users, todos, nextUserId, nextTodoId, now, nodeEnv>>

UserUpdate_FindByEmailAnyRow(p) ==
    /\ pc[p] = "userUpdate_findByEmail"
    /\ LET existingUser == UserRepository_findByEmail(Val(req[p].data.email))
       IN  IF IsSome(existingUser)
           THEN Throw(p, req[p], ConflictError("User with this email already exists"))
           ELSE Await(p, "userUpdate_write", req[p])
    /\ UNCHANGED <<users, todos, nextUserId, nextTodoId, now, nodeEnv>>

UserUpdate_FindByEmail(p) ==
    /\ pc[p] = "userUpdate_findByEmail"
    /\ LET existingUser == UserRepository_findByEmail(Val(req[p].data.email))
       IN  IF IsSome(existingUser) /\ Val(existingUser).id # req[p].id
           THEN Throw(p, req[p], ConflictError("User with this email already exists"))
           ELSE Await(p, "userUpdate_write", req[p])
    /\ UNCHANGED <<users, todos, nextUserId, nextTodoId, now, nodeEnv>>

\* UserRepository.update: prisma.user.update
UserUpdate_Write(p) ==
    /\ pc[p] = "userUpdate_write"
    /\ LET id == req[p].id
           data == req[p].data
       IN  IF UserOf(id) = {}
           THEN /\ Throw(p, req[p], PrismaClientKnownRequestError("P2025"))
                /\ UNCHANGED users
           ELSE IF IsSome(data.email) /\ EmailTaken(Val(data.email), id)
           THEN /\ Throw(p, req[p], PrismaClientKnownRequestError("P2002"))
                /\ UNCHANGED users
           ELSE LET old == CHOOSE u \in UserOf(id) : TRUE
                    row == UserRepository_updateRow(old, data)
                IN  /\ users' = (users \ {old}) \cup {row}
                    /\ Respond(p, req[p], Success(200, row))
    /\ UNCHANGED <<todos, nextUserId, nextTodoId, now, nodeEnv>>

(***************************************************************************)
(* UserService.delete: findById, then the delete.                          *)
(***************************************************************************)
UserDelete_Start(p, id) ==
    /\ CanStart(p)
    /\ LET request == [op |-> "userDelete", id |-> id]
       IN  IF UserRepository_findById(id) = None
           THEN Throw(p, request, NotFoundError("User", id))
           ELSE Await(p, "userDelete_write", request)
    /\ UNCHANGED <<users, todos, nextUserId, nextTodoId, now, nodeEnv>>

UserRepository_deleteNothing(id) == UNCHANGED <<users, todos>>

\* UserRepository.delete: prisma.user.delete
UserRepository_delete(id) ==
    /\ users' = users \ UserOf(id)
    /\ todos' = CascadeTodos(id)

UserDelete_Write(p) ==
    /\ pc[p] = "userDelete_write"
    /\ IF UserOf(req[p].id) = {}
       THEN /\ Throw(p, req[p], PrismaClientKnownRequestError("P2025"))
            /\ UNCHANGED <<users, todos>>
       ELSE /\ UserRepository_delete(req[p].id)
            /\ Respond(p, req[p], Success(204, None))
    /\ UNCHANGED <<nextUserId, nextTodoId, now, nodeEnv>>

(***************************************************************************)
(* The Todo table and TodoRepository.                                      *)
(***************************************************************************)
DefaultPage == 1
DefaultLimit == 10

Range(seq) == {seq[i] : i \in 1..Len(seq)}
Min(a, b) == IF a <= b THEN a ELSE b
\* Math.ceil(a / b) for a >= 0, b > 0
Ceil(a, b) == (a + b - 1) \div b

TodoOf(id) == {t \in todos : t.id = id}

\* TodoRepository.findById: prisma.todo.findUnique, a row or null
TodoRepository_findById(id) ==
    IF TodoOf(id) = {} THEN None ELSE Some(CHOOSE t \in TodoOf(id) : TRUE)

\* request.page || 1, request.limit || 10
EffectivePage(page) == IF page # 0 THEN page ELSE DefaultPage
EffectiveLimit(limit) == IF limit # 0 THEN limit ELSE DefaultLimit

\* the where clause built from userId, completed and tag
Where(filters, t) ==
    /\ IsSome(filters.userId) => t.userId = filters.userId
    /\ IsSome(filters.completed) => t.completed = Val(filters.completed)
    /\ IsSome(filters.tag) => Val(filters.tag) \in Range(t.tags)

Matching(filters) == {t \in todos : Where(filters, t)}

\* orderBy createdAt desc: every order of the rows in which no row precedes a
\* newer one (rows created at the same instant come in either order)
NewestFirst(rows) ==
    {order \in [1..Cardinality(rows) -> rows] :
        /\ \A i, j \in 1..Cardinality(rows) : i < j => order[i] # order[j]
        /\ \A i, j \in 1..Cardinality(rows) : i < j => order[i].createdAt >= order[j].createdAt}

SkipPageTimesLimit(page, limit) == page * limit

\* skip = (page - 1) * limit
Skip(page, limit) == (page - 1) * limit

\* skip, take applied to an ordered result
Page(order, skip, take) == SubSeq(order, skip + 1, Min(skip + take, Len(order)))

\* prisma.todo.findMany({ where, orderBy, skip, take }): the possible results
TodoRepository_findMany(filters) ==
    LET page == EffectivePage(filters.page)
        limit == EffectiveLimit(filters.limit)
    IN  {Page(order, Skip(page, limit), limit) : order \in NewestFirst(Matching(filters))}

\* prisma.todo.count({ where })
TodoRepository_count(filters) == Cardinality(Matching(filters))

\* the pagination block TodoRepository.findAll returns
RepositoryPagination(filters, total) ==
    [page |-> EffectivePage(filters.page), limit |-> EffectiveLimit(filters.limit),
     total |-> total, totalPages |-> Ceil(total, EffectiveLimit(filters.limit))]

\* TodoRepository.create: the row inserted for a request
TodoRepository_createRow(request, id, createdAt) ==
    [id |-> id,
     title |-> request.title,
     completed |-> IF IsSome(request.completed) THEN Val(request.completed) ELSE FALSE,
     startedTime |-> request.startedTime,
     duration |-> IF TruthyNumber(request.duration) THEN request.duration ELSE None,
     tags |-> IF IsSome(request.tags) THEN Val(request.tags) ELSE <<>>,
     isExpired |-> request.isExpired,
     userId |-> IF TruthyNumber(request.userId) THEN request.userId ELSE None,
     createdAt |-> createdAt]

TodoRepository_updateRowNulls(t, request) ==
    [t EXCEPT !.title = IF IsSome(request.title) THEN Val(request.title) ELSE @,
              !.completed = IF IsSome(request.completed) THEN Val(request.completed) ELSE @,
              !.startedTime = request.startedTime,
              !.duration = request.duration,
              !.tags = IF IsSome(request.tags) THEN Val(request.tags) ELSE @,
              !.isExpired = IF IsSome(request.isExpired) THEN Val(request.isExpired) ELSE @]

TodoRepository_updateRowAllFields(t, request) ==
    [t EXCEPT !.title = IF IsSome(request.title) THEN Val(request.title) ELSE @,
              !.completed = IF IsSome(request.completed) THEN Val(request.completed) ELSE FALSE,
              !.startedTime = request.startedTime,
              !.duration = request.duration,
              !.tags = IF IsSome(request.tags) THEN Val(request.tags) ELSE <<>>,
              !.isExpired = IF IsSome(request.isExpired) THEN Val(request.isExpired) ELSE @]

\* TodoRepository.update: only the supplied fields are written
TodoRepository_updateRow(t, request) ==
    [t EXCEPT !.title = IF IsSome(request.title) THEN Val(request.title) ELSE @,
              !.completed = IF IsSome(request.completed) THEN Val(request.completed) ELSE @,
              !.startedTime = IF IsSome(request.startedTime) THEN request.startedTime ELSE @,
              !.duration = IF IsSome(request.duration) THEN request.duration ELSE @,
              !.tags = IF IsSome(request.tags) THEN Val(request.tags) ELSE @,
              !.isExpired = IF IsSome(request.isExpired) THEN Val(request.isExpired) ELSE @]

OnlyIsExpiredAndCompleted(id, isExpired) ==
    [id |-> id, title |-> None, completed |-> Some(TRUE), startedTime |-> None, duration |-> None,
     tags |-> None, isExpired |-> Some(isExpired)]

\* an update request that supplies nothing but isExpired
OnlyIsExpired(id, isExpired) ==
    [id |-> id, title |-> None, completed |-> None, startedTime |-> None, duration |-> None,
     tags |-> None, isExpired |-> Some(isExpired)]

(***************************************************************************)
(* TodoService.findById, also the first call of TodoService.update and     *)
(* TodoService.delete: load the row, recompute its expiration, write the   *)
(* flag back when it differs and both fields are set, then go on.          *)
(***************************************************************************)
\* { ...todo, isExpired }
WithExpiryStored(todo, isExpired) == todo

WithExpiry(todo, isExpired) == [todo EXCEPT !.isExpired = isExpired]

\* isExpired !== existingIsExpired && todo.startedTime && todo.duration
NeedsCorrection(todo, isExpired) ==
    /\ isExpired # todo.isExpired
    /\ TruthyDate(todo.startedTime)
    /\ TruthyNumber(todo.duration)

UpdateRequestSuppliedOnly(id, data, existingTodo, n) ==
    [id |-> id, title |-> data.title, completed |-> data.completed, tags |-> data.tags,
     startedTime |-> data.startedTime, duration |-> data.duration,
     isExpired |-> IF IsSome(data.startedTime) \/ IsSome(data.duration)
                   THEN Some(calculateExpiration(data.startedTime, data.duration, n) = "true")
                   ELSE None]

\* TodoService.update, after findById: the update request built from the
\* supplied fields and the record findById returned
UpdateRequest(id, data, existingTodo, n) ==
    LET startedTime == IF IsSome(data.startedTime) THEN data.startedTime
                       ELSE existingTodo.startedTime
        duration == IF IsSome(data.duration) THEN data.duration ELSE existingTodo.duration
    IN  [id |-> id, title |-> data.title, completed |-> data.completed, tags |-> data.tags,
         startedTime |-> data.startedTime, duration |-> data.duration,
         isExpired |-> IF IsSome(data.startedTime) \/ IsSome(data.duration)
                       THEN Some(calculateExpiration(startedTime, duration, n) = "true")
                       ELSE None]

\* what follows findById in the handler of the request
AfterFindById(p, request, existingTodo) ==
    CASE request.op = "todoFindById" -> Respond(p, request, Success(200, existingTodo))
      [] request.op = "todoUpdate" ->
            Await(p, "todoUpdate_write",
                  [request EXCEPT !.updateRequest =
                        UpdateRequest(request.id, request.data, existingTodo, now),
                                  !.computedAt = now])
      [] request.op = "todoDelete" -> Await(p, "todoDelete_write", request)

TodoFindById_LoadNoCheck(p, request) ==
    /\ CanStart(p)
    /\ LET found == TodoRepository_findById(request.id)
       IN  IF found = None
           THEN Await(p, IF request.op = "todoUpdate" THEN "todoUpdate_write"
                         ELSE "todoDelete_write",
                      [request EXCEPT !.updateRequest = OnlyIsExpired(request.id, FALSE)])
           ELSE LET todo == Val(found)
                    isExpired == calculateExpiration(todo.startedTime, todo.duration, now) = "true"
                    loaded == [request EXCEPT !.todo = todo, !.isExpired = isExpired, !.at = now]
                IN  IF NeedsCorrection(todo, isExpired)
                    THEN Await(p, "todoFindById_correct", loaded)
                    ELSE AfterFindById(p, loaded, WithExpiry(todo, isExpired))
    /\ UNCHANGED <<users, todos, nextUserId, nextTodoId, now, nodeEnv>>

TodoFindById_Load(p, request) ==
    /\ CanStart(p)
    /\ LET found == TodoRepository_findById(request.id)
       IN  IF found = None
           THEN Throw(p, request, NotFoundError("Todo", request.id))
           ELSE LET todo == Val(found)
                    outcome == calculateExpiration(todo.startedTime, todo.duration, now)
                    isExpired == outcome = "true"
                    loaded == [request EXCEPT !.todo = todo, !.isExpired = isExpired, !.at = now]
                IN  IF outcome = "TypeError" THEN Throw(p, loaded, TypeError)
                    ELSE IF NeedsCorrection(todo, isExpired)
                    THEN Await(p, "todoFindById_correct", loaded)
                    ELSE AfterFindById(p, loaded, WithExpiry(todo, isExpired))
    /\ UNCHANGED <<users, todos, nextUserId, nextTodoId, now, nodeEnv>>

\* the input of a GET /todos/:id, PATCH /todos/:id, DELETE /todos/:id
TodoRequest(op, id, data) ==
    [op |-> op, data |-> data, id |-> id, isExpired |-> FALSE, todo |-> None,
     updateRequest |-> None, computedAt |-> 0, at |-> 0]

NoData == [title |-> None, completed |-> None, startedTime |-> None, duration |-> None,
           tags |-> None]

TodoFindById_Start(p, id) == TodoFindById_Load(p, TodoRequest("todoFindById", id, NoData))
TodoUpdate_Start(p, id, data) == TodoFindById_Load(p, TodoRequest("todoUpdate", id, data))
TodoDelete_Start(p, id) == TodoFindById_Load(p, TodoRequest("todoDelete", id, NoData))

TodoFindById_CorrectIfUnchanged(p) ==
    /\ pc[p] = "todoFindById_correct"
    /\ IF TodoOf(req[p].id) = {}
       THEN /\ Throw(p, req[p], PrismaClientKnownRequestError("P2025"))
            /\ UNCHANGED todos
       ELSE LET old == CHOOSE t \in TodoOf(req[p].id) : TRUE
                row == TodoRepository_updateRow(old, OnlyIsExpired(req[p].id, req[p].isExpired))
            IN  /\ todos' = IF old = req[p].todo THEN (todos \ {old}) \cup {row} ELSE todos
                /\ AfterFindById(p, req[p], WithExpiry(req[p].todo, req[p].isExpired))
    /\ UNCHANGED <<users, nextUserId, nextTodoId, now, nodeEnv>>

\* await this.todoRepository.update({ id: todo.id, isExpired })
TodoFindById_CorrectSkipped(p) ==
    /\ pc[p] = "todoFindById_correct"
    /\ AfterFindById(p, req[p], WithExpiry(req[p].todo, req[p].isExpired))
    /\ UNCHANGED <<users, todos, nextUserId, nextTodoId, now, nodeEnv>>

TodoFindById_Correct(p) ==
    /\ pc[p] = "todoFindById_correct"
    /\ IF TodoOf(req[p].id) = {}
       THEN /\ Throw(p, req[p], PrismaClientKnownRequestError("P2025"))
            /\ UNCHANGED todos
       ELSE LET old == CHOOSE t \in TodoOf(req[p].id) : TRUE
                row == TodoRepository_updateRow(old, OnlyIsExpired(req[p].id, req[p].isExpired))
            IN  /\ todos' = (todos \ {old}) \cup {row}
                /\ AfterFindById(p, req[p], WithExpiry(req[p].todo, req[p].isExpired))
    /\ UNCHANGED <<users, nextUserId, nextTodoId, now, nodeEnv>>

TodoUpdate_WriteUpsert(p) ==
    /\ pc[p] = "todoUpdate_write"
    /\ LET old == IF TodoOf(req[p].id) = {} THEN req[p].todo
                  ELSE CHOOSE t \in TodoOf(req[p].id) : TRUE
           row == TodoRepository_updateRow(old, req[p].updateRequest)
       IN  /\ todos' = (todos \ {old}) \cup {row}
           /\ Respond(p, req[p], Success(200, row))
    /\ UNCHANGED <<users, nextUserId, nextTodoId, now, nodeEnv>>

\* TodoRepository.update: prisma.todo.update
TodoUpdate_Write(p) ==
    /\ pc[p] = "todoUpdate_write"
    /\ IF TodoOf(req[p].id) = {}
       THEN /\ Throw(p, req[p], PrismaClientKnownRequestError("P2025"))
            /\ UNCHANGED todos
       ELSE LET old == CHOOSE t \in TodoOf(req[p].id) : TRUE
                row == TodoRepository_updateRow(old, req[p].updateRequest)
            IN  /\ todos' = (todos \ {old}) \cup {row}
                /\ Respond(p, req[p], Success(200, row))
    /\ UNCHANGED <<users, nextUserId, nextTodoId, now, nodeEnv>>

\* TodoRepository.delete: prisma.todo.delete
TodoDelete_Write(p) ==
    /\ pc[p] = "todoDelete_write"
    /\ IF TodoOf(req[p].id) = {}
       THEN /\ Throw(p, req[p], PrismaClientKnownRequestError("P2025"))
            /\ UNCHANGED todos
       ELSE /\ todos' = todos \ TodoOf(req[p].id)
            /\ Respond(p, req[p], Success(204, None))
    /\ UNCHANGED <<users, nextUserId, nextTodoId, now, nodeEnv>>

(***************************************************************************)
(* TodoService.create: verify the user when a userId is given, compute the *)
(* expiration, then insert.                                                *)
(***************************************************************************)
\* the CreateTodoRequest handed to the repository
CreateTodoRequest(data, isExpired) ==
    [title |-> data.title, completed |-> data.completed, userId |-> data.userId,
     startedTime |-> data.startedTime, duration |-> data.duration, tags |-> data.tags,
     isExpired |-> isExpired]

TodoCreate_StartNoUserCheck(p, data) ==
    /\ CanStart(p)
    /\ LET outcome == calculateExpiration(data.startedTime, data.duration, now)
           request == [op |-> "todoCreate", data |-> data, isExpired |-> outcome = "true",
                       at |-> now]
       IN  Await(p, "todoCreate_insert", request)
    /\ UNCHANGED <<users, todos, nextUserId, nextTodoId, now, nodeEnv>>

TodoCreate_Start(p, data) ==
    /\ CanStart(p)
    /\ LET outcome == calculateExpiration(data.startedTime, data.duration, now)
           request == [op |-> "todoCreate", data |-> data, isExpired |-> outcome = "true",
                       at |-> now]
       IN  IF TruthyNumber(data.userId) /\ UserRepository_findById(Val(data.userId)) = None
           THEN Throw(p, request, NotFoundError("User", Val(data.userId)))
           ELSE IF outcome = "TypeError" THEN Throw(p, request, TypeError)
           ELSE Await(p, "todoCreate_insert", request)
    /\ UNCHANGED <<users, todos, nextUserId, nextTodoId, now, nodeEnv>>

\* prisma.todo.create storing the userId without connecting the user
TodoCreate_InsertUnconnected(p) ==
    /\ pc[p] = "todoCreate_insert"
    /\ LET row == TodoRepository_createRow(CreateTodoRequest(req[p].data, req[p].isExpired),
                                           nextTodoId, now)
       IN  /\ todos' = todos \cup {row}
           /\ nextTodoId' = nextTodoId + 1
           /\ Respond(p, req[p], Success(201, row))
    /\ UNCHANGED <<users, nextUserId, now, nodeEnv>>

\* TodoRepository.create: prisma.todo.create, connecting the user
TodoCreate_Insert(p) ==
    /\ pc[p] = "todoCreate_insert"
    /\ LET data == req[p].data
           row == TodoRepository_createRow(CreateTodoRequest(data, req[p].isExpired),
                                           nextTodoId, now)
       IN  IF TruthyNumber(data.userId) /\ UserOf(Val(data.userId)) = {}
           THEN /\ Throw(p, req[p], PrismaClientKnownRequestError("P2025"))
                /\ UNCHANGED <<todos, nextTodoId>>
           ELSE /\ todos' = todos \cup {row}
                /\ nextTodoId' = nextTodoId + 1
                /\ Respond(p, req[p], Success(201, row))
    /\ UNCHANGED <<users, nextUserId, now, nodeEnv>>

(***************************************************************************)
(* TodoService.findAll: the repository's findMany and count (issued        *)
(* together, answered in either order), the recomputation of every row of  *)
(* the page, the isExpired filter, the correction writes.                  *)
(***************************************************************************)
\* processedTodos: each row of the page with its expiration recomputed at n
ProcessedTodosStored(data, n) == data

ProcessedTodos(data, n) ==
    [i \in 1..Len(data) |->
        WithExpiry(data[i], calculateExpiration(data[i].startedTime, data[i].duration, n) = "true")]

\* filteredTodos: the isExpired filter, on the processed page
FilteredTodos(processed, filters) ==
    IF IsSome(filters.isExpired)
    THEN LET Keep(t) == t.isExpired = Val(filters.isExpired) IN SelectSeq(processed, Keep)
    ELSE processed

\* todosToUpdate: the processed rows whose expiration, evaluated again at n,
\* differs from the flag they carry
TodosToUpdate(processed, n) ==
    {[id |-> t.id, isExpired |-> t.isExpired] :
        t \in {x \in Range(processed) :
                 NeedsCorrection(x, calculateExpiration(x.startedTime, x.duration, n) = "true")}}

ServicePaginationStoreTotal(filters, repositoryPagination, filtered) == repositoryPagination

\* the pagination block of the response
ServicePagination(filters, repositoryPagination, filtered) ==
    LET total == IF filters.isExpired = None THEN repositoryPagination.total ELSE Len(filtered)
    IN  [page |-> repositoryPagination.page, limit |-> repositoryPagination.limit,
         total |-> total, totalPages |-> Ceil(total, repositoryPagination.limit)]

ListRequest(filters) ==
    [op |-> "todoFindAll", filters |-> filters, data |-> <<>>, total |-> 0, at |-> 0,
     pending |-> {}, failed |-> FALSE, result |-> NoResponse]

\* findMany answered first
TodoFindAll_StartFindMany(p, filters) ==
    /\ CanStart(p)
    /\ \E data \in TodoRepository_findMany(filters) :
          Await(p, "todoFindAll_count", [ListRequest(filters) EXCEPT !.data = data])
    /\ UNCHANGED <<users, todos, nextUserId, nextTodoId, now, nodeEnv>>

\* count answered first
TodoFindAll_StartCount(p, filters) ==
    /\ CanStart(p)
    /\ Await(p, "todoFindAll_findMany",
             [ListRequest(filters) EXCEPT !.total = TodoRepository_count(filters)])
    /\ UNCHANGED <<users, todos, nextUserId, nextTodoId, now, nodeEnv>>

\* the code from the repository's answer to the correction writes; the clock may
\* advance between the two evaluations of a row's expiration
ProcessPage(p, request, instants) ==
    \E later \in {now} \cup {t \in instants : t > now} :
        LET filters == request.filters
            processed == ProcessedTodos(request.data, now)
            filtered == FilteredTodos(processed, filters)
            toUpdate == TodosToUpdate(processed, later)
            result == [status |-> 200, success |-> TRUE, threw |-> "none", data |-> filtered,
                       pagination |-> ServicePagination(filters,
                                         RepositoryPagination(filters, request.total), filtered)]
            done == [request EXCEPT !.at = now, !.pending = toUpdate, !.result = result]
        IN  /\ now' = later
            /\ IF toUpdate = {} THEN Respond(p, done, result)
               ELSE Await(p, "todoFindAll_correct", done)

TodoFindAll_Count(p, instants) ==
    /\ pc[p] = "todoFindAll_count"
    /\ ProcessPage(p, [req[p] EXCEPT !.total = TodoRepository_count(req[p].filters)], instants)
    /\ UNCHANGED <<users, todos, nextUserId, nextTodoId, nodeEnv>>

TodoFindAll_FindMany(p, instants) ==
    /\ pc[p] = "todoFindAll_findMany"
    /\ \E data \in TodoRepository_findMany(req[p].filters) :
          ProcessPage(p, [req[p] EXCEPT !.data = data], instants)
    /\ UNCHANGED <<users, todos, nextUserId, nextTodoId, nodeEnv>>

\* one of the writes of Promise.all(todosToUpdate.map(... update({ id, isExpired })));
\* the first that fails rejects the request, the others still run
TodoFindAll_Correct(p) ==
    /\ pc[p] = "todoFindAll_correct"
    /\ \E u \in req[p].pending :
          LET rest == req[p].pending \ {u}
              missing == TodoOf(u.id) = {}
              failed == req[p].failed \/ missing
              request == [req[p] EXCEPT !.pending = rest, !.failed = failed]
              response == IF missing /\ ~req[p].failed
                          THEN errorHandler(PrismaClientKnownRequestError("P2025"), nodeEnv)
                          ELSE IF rest = {} /\ ~failed THEN req[p].result
                          ELSE resp[p]
          IN  /\ IF missing THEN UNCHANGED todos
                 ELSE LET old == CHOOSE t \in TodoOf(u.id) : TRUE
                          row == TodoRepository_updateRow(old, OnlyIsExpired(u.id, u.isExpired))
                      IN  todos' = (todos \ {old}) \cup {row}
              /\ req' = [req EXCEPT ![p] = request]
              /\ resp' = [resp EXCEPT ![p] = response]
              /\ pc' = [pc EXCEPT ![p] = IF rest = {} THEN "done" ELSE "todoFindAll_correct"]
    /\ UNCHANGED <<users, nextUserId, nextTodoId, now, nodeEnv>>

(***************************************************************************)
(* The service with one request in flight at a time: users are created and *)
(* deleted; todos are created, fetched, listed and deleted while the clock *)
(* passes the end of their window.                                         *)
(***************************************************************************)
MaxUsers == 2
MaxTodos == 2

ServiceInstants == {60001}
Emails == {"alice@x.io", "bob@x.io"}
UserIds == 1..MaxUsers
TodoIds == 1..MaxTodos

\* POST /users bodies
UserCreateInputs == {[name |-> "Alice", email |-> e] : e \in Emails}

\* POST /todos bodies; the route passes no completed
TodoCreateInputs ==
    {[title |-> "Read book", completed |-> None, userId |-> u, startedTime |-> w[1],
      duration |-> w[2], tags |-> None] :
        u \in {None} \cup {Some(i) : i \in UserIds},
        w \in {<<Some(0), None>>, <<Some(0), Some(1)>>}}

\* GET /todos queries
TodoListInputs ==
    {[userId |-> u, completed |-> None, tag |-> None, isExpired |-> x, page |-> 1, limit |-> 0] :
        u \in {None, Some(1)}, x \in {None, Some(TRUE)}}

Next ==
    \/ Tick(ServiceInstants)
    \/ Finish("r1")
    \/ \E data \in UserCreateInputs : nextUserId <= MaxUsers /\ UserCreate_Start("r1", data)
    \/ UserCreate_Insert("r1")
    \/ \E id \in UserIds : UserDelete_Start("r1", id)
    \/ UserDelete_Write("r1")
    \/ \E data \in TodoCreateInputs : nextTodoId <= MaxTodos /\ TodoCreate_Start("r1", data)
    \/ TodoCreate_Insert("r1")
    \/ \E id \in TodoIds : TodoFindById_Start("r1", id)
    \/ \E id \in TodoIds : TodoDelete_Start("r1", id)
    \/ TodoFindById_Correct("r1")
    \/ TodoDelete_Write("r1")
    \/ \E filters \in TodoListInputs : TodoFindAll_StartFindMany("r1", filters)
    \/ \E filters \in TodoListInputs : TodoFindAll_StartCount("r1", filters)
    \/ TodoFindAll_Count("r1", ServiceInstants)
    \/ TodoFindAll_FindMany("r1", ServiceInstants)
    \/ TodoFindAll_Correct("r1")

Spec == Init /\ [][Next]_vars

Done(p, op) == pc[p] = "done" /\ req[p].op = op

\* C3: TodoService.create with a userId that matches no stored user fails with
\* NotFoundError (404) in the step that looks the user up: the request is over,
\* no insert was issued, and the stored todos and users are what they were.
C3_CreateForUnknownUserFails ==
    [][\A p \in Procs :
          (/\ pc[p] = "idle"
           /\ req'[p].op = "todoCreate"
           /\ TruthyNumber(req'[p].data.userId)
           /\ UserOf(Val(req'[p].data.userId)) = {})
          => (/\ pc'[p] = "done"
              /\ resp'[p].threw = "NotFoundError"
              /\ resp'[p].status = 404
              /\ todos' = todos
              /\ users' = users
              /\ nextTodoId' = nextTodoId)]_vars

C3_Witness ==
    \E p \in Procs : /\ Done(p, "todoCreate")
                     /\ resp[p].threw = "NotFoundError"
                     /\ req[p].data.userId = Some(1)
                     /\ users # {}
                     /\ todos # {}

\* C7: once a user is deleted no stored todo refers to it: a user delete answered
\* 204 leaves neither the user nor a todo of that user, no todo ever refers to an
\* id that was handed out and is no longer stored, and a listing filtered by the
\* id of a user that is not stored returns zero records.
C7_DeletedUserLeavesNoTodos ==
    /\ \A p \in Procs : (Done(p, "userDelete") /\ resp[p].status = 204) =>
          /\ UserOf(req[p].id) = {}
          /\ \A t \in todos : t.userId # Some(req[p].id)
    /\ \A id \in 1..(nextUserId - 1) : UserOf(id) = {} => \A t \in todos : t.userId # Some(id)
    /\ \A p \in Procs :
          (/\ Done(p, "todoFindAll")
           /\ resp[p].status = 200
           /\ IsSome(req[p].filters.userId)
           /\ UserOf(Val(req[p].filters.userId)) = {})
          => (resp[p].data = <<>> /\ resp[p].pagination.total = 0)

\* user 1 was created, owned a todo, was deleted, and a listing by its id ran
C7_Witness ==
    \E p \in Procs : /\ Done(p, "todoFindAll")
                     /\ req[p].filters.userId = Some(1)
                     /\ req[p].filters.isExpired = None
                     /\ nextUserId > 1
                     /\ UserOf(1) = {}
                     /\ nextTodoId > 1
                     /\ \E t \in todos : t.userId = None
                     /\ resp[p].data = <<>>

\* C9: every todo returned by the listing and by the fetch by id carries isExpired
\* equal to the evaluator applied to the startedTime and duration of that record
\* at the time of the read, whatever the stored flag is; it is false whenever
\* startedTime or duration is absent.
ReturnedExpiryIsRecomputed(t, at) ==
    /\ t.isExpired = (calculateExpiration(t.startedTime, t.duration, at) = "true")
    /\ (t.startedTime = None \/ t.duration = None) => t.isExpired = FALSE

C9_ReadsReturnRecomputedExpiry ==
    \A p \in Procs :
        /\ (Done(p, "todoFindById") /\ resp[p].status = 200) =>
              ReturnedExpiryIsRecomputed(resp[p].data, req[p].at)
        /\ (Done(p, "todoFindAll") /\ resp[p].status = 200) =>
              \A i \in 1..Len(resp[p].data) : ReturnedExpiryIsRecomputed(resp[p].data[i], req[p].at)

\* a listing that returned a flag other than the one it loaded, and a row with
\* no duration
C9_Witness ==
    \E p \in Procs : /\ Done(p, "todoFindAll")
                     /\ resp[p].status = 200
                     /\ \E i \in 1..Len(resp[p].data) :
                           /\ req[p].data[i].isExpired = FALSE
                           /\ resp[p].data[i].isExpired = TRUE
                     /\ \E i \in 1..Len(resp[p].data) : resp[p].data[i].duration = None

\* C10: a fetch by id whose recomputed expiration differs from the stored flag,
\* with startedTime and duration both present, has written the recomputed value
\* by the time it answers: with no other request in flight the stored flag equals
\* the returned one.  A todo whose window has elapsed is returned with isExpired
\* true.
C10_FetchCorrectsStoredFlag ==
    \A p \in Procs :
        (/\ Done(p, "todoFindById")
         /\ resp[p].status = 200
         /\ IsSome(req[p].todo.startedTime)
         /\ IsSome(req[p].todo.duration))
        => /\ \A t \in TodoOf(req[p].id) : t.isExpired = resp[p].data.isExpired
           /\ TodoOf(req[p].id) # {}
           /\ req[p].at > Val(req[p].todo.startedTime) + Val(req[p].todo.duration) * 60000
                 => resp[p].data.isExpired = TRUE

\* a todo stored as not expired, fetched after its window, now stored as expired
C10_Witness ==
    \E p \in Procs : /\ Done(p, "todoFindById")
                     /\ resp[p].status = 200
                     /\ req[p].todo.isExpired = FALSE
                     /\ req[p].todo.startedTime = Some(0)
                     /\ req[p].todo.duration = Some(1)
                     /\ req[p].at = 60001
                     /\ resp[p].data.isExpired = TRUE
                     /\ \E t \in TodoOf(req[p].id) : t.isExpired = TRUE

\* C11: when a listing has answered, every record of its page whose recomputed
\* expiration differed from the stored flag, with startedTime and duration both
\* present, has the recomputed value stored (the listing wrote it).
C11_ListingCorrectsStoredFlags ==
    \A p \in Procs :
        (Done(p, "todoFindAll") /\ resp[p].status = 200) =>
            \A i \in 1..Len(req[p].data) :
                LET t == req[p].data[i]
                    recomputed == calculateExpiration(t.startedTime, t.duration, req[p].at) = "true"
                IN  (recomputed # t.isExpired /\ IsSome(t.startedTime) /\ IsSome(t.duration))
                    => \A stored \in TodoOf(t.id) : stored.isExpired = recomputed

\* C13: the correction write of a read is not awaited by the request: a fetch by
\* id that finds its todo answers in the step that loaded it, and a listing
\* answers in the step that received the second of findMany and count; neither
\* passes through a state in which it waits for a correction write.
C13_ReadDoesNotAwaitCorrection ==
    [][\A p \in Procs :
          /\ (pc[p] = "idle" /\ req'[p].op = "todoFindById" /\ TodoOf(req'[p].id) # {})
             => pc'[p] = "done"
          /\ (pc[p] \in {"todoFindAll_count", "todoFindAll_findMany"} /\ pc'[p] # pc[p])
             => pc'[p] = "done"]_vars

(***************************************************************************)
(* Reads and deletes of todos in flight together: a todo can be deleted    *)
(* between the load of a read and the correction write of that read.       *)
(***************************************************************************)
RaceTodoInputs ==
    {[title |-> "Read book", completed |-> None, userId |-> None, startedTime |-> Some(0),
      duration |-> Some(1), tags |-> None]}

RaceListInputs ==
    {[userId |-> None, completed |-> None, tag |-> None, isExpired |-> None, page |-> 1,
      limit |-> 0]}

TodoRaceNext ==
    \/ Tick(ServiceInstants)
    \/ \E p \in Procs :
        \/ Finish(p)
        \/ \E data \in RaceTodoInputs : nextTodoId <= MaxTodos /\ TodoCreate_Start(p, data)
        \/ TodoCreate_Insert(p)
        \/ \E id \in TodoIds : TodoFindById_Start(p, id)
        \/ \E id \in TodoIds : TodoDelete_Start(p, id)
        \/ TodoFindById_Correct(p)
        \/ TodoDelete_Write(p)
        \/ \E filters \in RaceListInputs : TodoFindAll_StartFindMany(p, filters)
        \/ \E filters \in RaceListInputs : TodoFindAll_StartCount(p, filters)
        \/ TodoFindAll_Count(p, ServiceInstants)
        \/ TodoFindAll_FindMany(p, ServiceInstants)
        \/ TodoFindAll_Correct(p)

SpecTodoRace == Init /\ [][TodoRaceNext]_vars

\* C12: a failure of the correction write of a read never reaches the caller: a
\* listing always answers 200 with its data, and a fetch by id answers 200 with
\* the todo unless its own lookup found none (NotFoundError).
C12_ReadsSurviveCorrectionFailure ==
    \A p \in Procs :
        /\ Done(p, "todoFindAll") => (resp[p].status = 200 /\ resp[p].success)
        /\ Done(p, "todoFindById") =>
              \/ resp[p].status = 200 /\ resp[p].success
              \/ resp[p].threw = "NotFoundError"

(***************************************************************************)
(* The user service with one request in flight at a time.                  *)
(***************************************************************************)
\* PATCH /users/:id bodies
UserUpdateInputs ==
    {[name |-> n, email |-> e] : n \in {None, Some("Bob")}, e \in {None} \cup {Some(x) : x \in Emails}}

UsersNext ==
    \/ Finish("r1")
    \/ \E data \in UserCreateInputs : nextUserId <= MaxUsers /\ UserCreate_Start("r1", data)
    \/ UserCreate_Insert("r1")
    \/ \E id \in UserIds, data \in UserUpdateInputs : UserUpdate_Start("r1", id, data)
    \/ UserUpdate_FindByEmail("r1")
    \/ UserUpdate_Write("r1")
    \/ \E id \in UserIds : UserDelete_Start("r1", id)
    \/ UserDelete_Write("r1")

SpecUsers == Init /\ [][UsersNext]_vars

\* C4: UserService.create with an email that a stored user has fails with
\* ConflictError (409) in the step that looks the email up: the request is over,
\* no insert was issued, and the stored users are what they were.
C4_CreateWithTakenEmailConflicts ==
    [][\A p \in Procs :
          (/\ pc[p] = "idle"
           /\ req'[p].op = "userCreate"
           /\ \E u \in users : u.email = req'[p].data.email)
          => (/\ pc'[p] = "done"
              /\ resp'[p].threw = "ConflictError"
              /\ resp'[p].status = 409
              /\ users' = users
              /\ nextUserId' = nextUserId)]_vars

C4_Witness ==
    \E p \in Procs : /\ Done(p, "userCreate")
                     /\ resp[p].threw = "ConflictError"
                     /\ \E u \in users : u.email = req[p].data.email

\* C5: UserService.update that sets the email to one a different stored user has
\* fails with ConflictError (409) and leaves the users as they were; an update to
\* the user's own current email passes the lookup, and its write succeeds (200)
\* with the email as it was.
OwnsEmail(id, email) == \E u \in users : u.id = id /\ u.email = email
OtherOwnsEmail(id, email) == \E u \in users : u.id # id /\ u.email = email

C5_UpdateEmailConflictsOnlyWithOthers ==
    [][\A p \in Procs :
          /\ (pc[p] = "userUpdate_findByEmail" /\ pc'[p] # pc[p]
              /\ OtherOwnsEmail(req[p].id, Val(req[p].data.email)))
             => (/\ pc'[p] = "done"
                 /\ resp'[p].threw = "ConflictError"
                 /\ resp'[p].status = 409
                 /\ users' = users)
          /\ (pc[p] = "userUpdate_findByEmail" /\ pc'[p] # pc[p]
              /\ OwnsEmail(req[p].id, Val(req[p].data.email)))
             => (pc'[p] = "userUpdate_write" /\ users' = users)
          /\ (pc[p] = "userUpdate_write" /\ pc'[p] # pc[p] /\ IsSome(req[p].data.email)
              /\ OwnsEmail(req[p].id, Val(req[p].data.email)))
             => (/\ pc'[p] = "done"
                 /\ resp'[p].status = 200
                 /\ resp'[p].data.email = Val(req[p].data.email)
                 /\ \E u \in users' : u = resp'[p].data
                 /\ {u.email : u \in users'} = {u.email : u \in users})
          /\ (req'[p].op = "userUpdate" /\ resp'[p].status = 409) => users' = users]_vars

\* both cases happened: with two users stored, an update to the user's own email
\* was answered 200
C5_Witness ==
    \E p \in Procs : /\ Done(p, "userUpdate")
                     /\ resp[p].status = 200
                     /\ IsSome(req[p].data.email)
                     /\ OwnsEmail(req[p].id, Val(req[p].data.email))
                     /\ req[p].data.name = Some("Bob")
                     /\ Cardinality(users) = 2

(***************************************************************************)
(* User creates and updates in flight together: two requests whose store   *)
(* calls interleave in every order.                                        *)
(***************************************************************************)
RaceEmails == Emails \cup {"carol@x.io"}
RaceCreateInputs == {[name |-> "Alice", email |-> e] : e \in RaceEmails}
RaceUpdateInputs == {[name |-> None, email |-> Some(e)] : e \in RaceEmails}

RaceNext ==
    \E p \in Procs :
        \/ Finish(p)
        \/ \E data \in RaceCreateInputs : nextUserId <= MaxUsers /\ UserCreate_Start(p, data)
        \/ UserCreate_Insert(p)
        \/ \E id \in UserIds, data \in RaceUpdateInputs : UserUpdate_Start(p, id, data)
        \/ UserUpdate_FindByEmail(p)
        \/ UserUpdate_Write(p)

SpecUserRace == Init /\ [][RaceNext]_vars

\* C6: under every interleaving of user creates and updates no two stored users
\* have the same email, and every request whose write the store rejected for the
\* unique constraint (P2002) is answered 409.
C6_UniqueEmailUnderRaces ==
    /\ \A u, v \in users : u.email = v.email => u = v
    /\ \A u, v \in users : u.id = v.id => u = v
    /\ \A p \in Procs :
          (pc[p] = "done" /\ req[p].op \in {"userCreate", "userUpdate"}
           /\ resp[p].threw = "PrismaClientKnownRequestError" /\ resp[p].code = "P2002")
          => (resp[p].status = 409 /\ resp[p].success = FALSE)

\* an update that passed its lookup and lost at the write to a request that took
\* the email in between
C6_Witness ==
    \E p \in Procs : /\ Done(p, "userUpdate")
                     /\ resp[p].threw = "PrismaClientKnownRequestError"
                     /\ resp[p].code = "P2002"
                     /\ resp[p].status = 409
                     /\ Cardinality(users) = 2

(***************************************************************************)
(* Listings: todos of one user and of none, tagged and untagged, created   *)
(* at the same and at different instants, completed by an update, listed   *)
(* page by page.                                                           *)
(***************************************************************************)
MaxListTodos == 3

ListInstants == {1}
ListPages == {0, 1, 2, 3}
ListLimits == {0, 1, 2}
ListTodoIds == 1..MaxListTodos

ListCreateInputs ==
    {[title |-> "Read book", completed |-> None, userId |-> k[1], startedTime |-> None,
      duration |-> None, tags |-> k[2]] :
        k \in {<<None, None>>, <<Some(1), Some(<<"home">>)>>}}

ListUpdateInputs ==
    {[title |-> None, completed |-> Some(TRUE), startedTime |-> None, duration |-> None,
      tags |-> None]}

\* GET /todos queries without isExpired: one of the three filters or none, and
\* every page and limit, 0 included
ListFilters ==
    {<<None, None, None>>, <<Some(1), None, None>>, <<None, Some(TRUE), None>>,
     <<None, None, Some("home")>>}

ListInputs ==
    {[userId |-> f[1], completed |-> f[2], tag |-> f[3], isExpired |-> None, page |-> pg,
      limit |-> l] : f \in ListFilters, pg \in ListPages, l \in ListLimits}

ListNext ==
    \/ Tick(ListInstants)
    \/ Finish("r1")
    \/ nextUserId = 1 /\ UserCreate_Start("r1", [name |-> "Alice", email |-> "alice@x.io"])
    \/ UserCreate_Insert("r1")
    \/ \E data \in ListCreateInputs : nextTodoId <= MaxListTodos /\ TodoCreate_Start("r1", data)
    \/ TodoCreate_Insert("r1")
    \/ \E id \in ListTodoIds, data \in ListUpdateInputs : TodoUpdate_Start("r1", id, data)
    \/ TodoUpdate_Write("r1")
    \/ \E filters \in ListInputs : TodoFindAll_StartFindMany("r1", filters)
    \/ \E filters \in ListInputs : TodoFindAll_StartCount("r1", filters)
    \/ TodoFindAll_Count("r1", ListInstants)
    \/ TodoFindAll_FindMany("r1", ListInstants)

SpecList == Init /\ [][ListNext]_vars

Ids(rows) == [i \in 1..Len(rows) |-> rows[i].id]

\* positions first..last of an order, cut at its end
Positions(order, first, last) ==
    [i \in 1..(IF Min(last, Len(order)) >= first THEN Min(last, Len(order)) - first + 1 ELSE 0)
        |-> order[first + i - 1]]

\* C8: without an isExpired filter, a listing for page p >= 1 and limit l >= 1
\* returns the records at positions (p-1)*l+1 .. p*l of a newest-created-first
\* ordering of the todos that match the userId, completed and tag filters, with
\* total the number of matching todos and totalPages = ceil(total / l).  (A page
\* or limit of 0 is answered as the default, page 1 and limit 10, and the same
\* holds of the page and limit the response reports.)
C8_PageOfNewestFirst ==
    \A p \in Procs :
        (Done(p, "todoFindAll") /\ resp[p].status = 200 /\ req[p].filters.isExpired = None) =>
            LET filters == req[p].filters
                pg == resp[p].pagination.page
                l == resp[p].pagination.limit
                matching == {t \in todos :
                               /\ IsSome(filters.userId) => t.userId = filters.userId
                               /\ IsSome(filters.completed) => t.completed = Val(filters.completed)
                               /\ IsSome(filters.tag) =>
                                     \E i \in 1..Len(t.tags) : t.tags[i] = Val(filters.tag)}
                n == Cardinality(matching)
            IN  /\ filters.page >= 1 => pg = filters.page
                /\ filters.limit >= 1 => l = filters.limit
                /\ filters.page = 0 => pg = 1
                /\ filters.limit = 0 => l = 10
                /\ \E order \in [1..n -> matching] :
                      /\ \A i, j \in 1..n : i < j =>
                            (order[i] # order[j] /\ order[i].createdAt >= order[j].createdAt)
                      /\ Ids(resp[p].data) = Ids(Positions(order, (pg - 1) * l + 1, pg * l))
                /\ resp[p].pagination.total = n
                /\ resp[p].pagination.totalPages * l >= n
                /\ (resp[p].pagination.totalPages - 1) * l < n
                /\ resp[p].pagination.totalPages >= 0

\* page 2, limit 2 over three todos created at different instants: the oldest
C8_Witness ==
    \E p \in Procs : /\ Done(p, "todoFindAll")
                     /\ req[p].filters.page = 2
                     /\ req[p].filters.limit = 2
                     /\ req[p].filters.userId = Some(1)
                     /\ Cardinality({t \in todos : t.userId = Some(1)}) = 3
                     /\ Len(resp[p].data) = 1
                     /\ \A t \in todos : t.createdAt >= resp[p].data[1].createdAt
                     /\ \E t \in todos : t.createdAt > resp[p].data[1].createdAt
                     /\ resp[p].pagination.totalPages = 2

(***************************************************************************)
(* Listings with an isExpired filter, over todos with and without a        *)
(* window, before and after the window ends.                               *)
(***************************************************************************)
ExpiredListPages == {1, 2}
ExpiredListLimits == {1, 2}

ExpiredListCreateInputs ==
    {[title |-> "Read book", completed |-> None, userId |-> None, startedTime |-> Some(0),
      duration |-> d, tags |-> None] : d \in {None, Some(1)}}

ExpiredListInputs ==
    {[userId |-> None, completed |-> None, tag |-> None, isExpired |-> Some(x), page |-> pg,
      limit |-> l] : x \in BOOLEAN, pg \in ExpiredListPages, l \in ExpiredListLimits}

ExpiredListNext ==
    \/ Tick(ServiceInstants)
    \/ Finish("r1")
    \/ \E data \in ExpiredListCreateInputs : nextTodoId <= MaxTodos /\ TodoCreate_Start("r1", data)
    \/ TodoCreate_Insert("r1")
    \/ \E filters \in ExpiredListInputs : TodoFindAll_StartFindMany("r1", filters)
    \/ \E filters \in ExpiredListInputs : TodoFindAll_StartCount("r1", filters)
    \/ TodoFindAll_Count("r1", ServiceInstants)
    \/ TodoFindAll_FindMany("r1", ServiceInstants)
    \/ TodoFindAll_Correct("r1")

SpecExpiredList == Init /\ [][ExpiredListNext]_vars

\* whether a row's window has ended at an instant
WindowEnded(t, at) ==
    /\ IsSome(t.startedTime)
    /\ IsSome(t.duration)
    /\ at > Val(t.startedTime) + Val(t.duration) * 60000

\* the ids, in order, of the rows of a page whose window has ended (or not)
IdsWithExpiry(rows, at, wanted) ==
    LET Keep(t) == WindowEnded(t, at) = wanted IN Ids(SelectSeq(rows, Keep))

\* C14: with an isExpired filter the listing returns the records of the requested
\* page (positions (p-1)*l+1 .. p*l of the newest-first order of the todos that
\* match the other filters) whose recomputed isExpired equals the filter; total
\* is the number of records returned, not the number across all pages, and
\* totalPages = ceil(total / l).
C14_ExpiredFilterWithinPage ==
    \A p \in Procs :
        (Done(p, "todoFindAll") /\ resp[p].status = 200 /\ IsSome(req[p].filters.isExpired)) =>
            LET filters == req[p].filters
                wanted == Val(filters.isExpired)
                l == resp[p].pagination.limit
                n == Cardinality(Matching(filters))
                total == resp[p].pagination.total
            IN  /\ l = filters.limit
                /\ \E order \in [1..n -> Matching(filters)] :
                      /\ \A i, j \in 1..n : i < j =>
                            (order[i] # order[j] /\ order[i].createdAt >= order[j].createdAt)
                      /\ Ids(resp[p].data) =
                            IdsWithExpiry(Positions(order, (filters.page - 1) * l + 1,
                                                    filters.page * l), req[p].at, wanted)
                /\ \A i \in 1..Len(resp[p].data) : resp[p].data[i].isExpired = wanted
                /\ total = Len(resp[p].data)
                /\ resp[p].pagination.totalPages * l >= total
                /\ (resp[p].pagination.totalPages - 1) * l < total
                /\ resp[p].pagination.totalPages >= 0

\* two expired todos stored, page 1 of limit 1 asked for the expired ones: one
\* record, total 1
C14_Witness ==
    \E p \in Procs : /\ Done(p, "todoFindAll")
                     /\ resp[p].status = 200
                     /\ req[p].filters.isExpired = Some(TRUE)
                     /\ req[p].filters.limit = 1
                     /\ Cardinality({t \in todos : WindowEnded(t, req[p].at)}) = 2
                     /\ Len(resp[p].data) = 1
                     /\ resp[p].pagination.total = 1
                     /\ resp[p].pagination.totalPages = 1

(***************************************************************************)
(* Todos fetched, updated and deleted by id, one request at a time, while  *)
(* the clock passes the end of their windows.                              *)
(***************************************************************************)
MaxUpdateTodos == 1

UpdateInstants == {60001, 120001}
\* the ids of the todos created and two ids that no todo has; the id path
\* parameter is any string of digits, 0 included
UpdateTodoIds == 0..(MaxUpdateTodos + 1)

UpdateCreateInputs ==
    {[title |-> "Read book", completed |-> None, userId |-> None, startedTime |-> Some(0),
      duration |-> d, tags |-> Some(<<"home">>)] : d \in {None, Some(1)}}

\* PATCH /todos/:id bodies: at least one field is supplied
UpdateInputs ==
    {[title |-> None, completed |-> f[1], startedTime |-> f[2], duration |-> f[3], tags |-> f[4]] :
        f \in {<<Some(TRUE), None, None, None>>,
               <<None, None, None, Some(<<"work">>)>>,
               <<None, None, Some(2), None>>,
               <<None, Some(60000), None, None>>,
               <<Some(TRUE), Some(60000), Some(2), None>>}}

TodoUpdateNext ==
    \/ Tick(UpdateInstants)
    \/ Finish("r1")
    \/ \E data \in UpdateCreateInputs :
          nextTodoId <= MaxUpdateTodos /\ TodoCreate_Start("r1", data)
    \/ TodoCreate_Insert("r1")
    \/ \E id \in UpdateTodoIds : TodoFindById_Start("r1", id)
    \/ \E id \in UpdateTodoIds, data \in UpdateInputs : TodoUpdate_Start("r1", id, data)
    \/ \E id \in UpdateTodoIds : TodoDelete_Start("r1", id)
    \/ TodoFindById_Correct("r1")
    \/ TodoUpdate_Write("r1")
    \/ TodoDelete_Write("r1")

SpecTodoUpdate == Init /\ [][TodoUpdateNext]_vars

\* the row an update wrote: the one stored under its id once it has answered
Written(p) == CHOOSE t \in TodoOf(req[p].id) : TRUE

\* the value a field has after the update: the supplied one, else the one of
\* the record the update fetched
Merged(supplied, fetched) == IF IsSome(supplied) THEN supplied ELSE fetched

\* C15: an update that supplies startedTime or duration persists, in the one
\* store write that applies the supplied fields, an isExpired equal to the
\* evaluator's result on the merged view (supplied values where present, the
\* fetched record's values elsewhere)
C15_UpdateRecomputesOnMergedView ==
    [][\A p \in Procs :
          (/\ pc[p] = "todoUpdate_write"
           /\ pc'[p] = "done"
           /\ resp'[p].status = 200
           /\ (IsSome(req[p].data.startedTime) \/ IsSome(req[p].data.duration)))
          => \E old \in TodoOf(req[p].id), new \in TodoOf(req[p].id)' :
                LET startedTime == Merged(req[p].data.startedTime, req[p].todo.startedTime)
                    duration == Merged(req[p].data.duration, req[p].todo.duration)
                IN  /\ todos' = (todos \ {old}) \cup {new}
                    /\ new.startedTime = startedTime
                    /\ new.duration = duration
                    /\ new.isExpired = WindowEnded([startedTime |-> startedTime, duration |-> duration],
                                                   req[p].computedAt)
                    /\ IsSome(req[p].data.completed) => new.completed = Val(req[p].data.completed)
                    /\ IsSome(req[p].data.tags) => new.tags = Val(req[p].data.tags)
                    /\ resp'[p].data = new]_vars

\* an update that supplied only a duration, and whose window (the stored start
\* with the new duration) had ended when it was evaluated
C15_Witness ==
    /\ Done("r1", "todoUpdate")
    /\ resp["r1"].status = 200
    /\ req["r1"].data.startedTime = None
    /\ req["r1"].data.duration = Some(2)
    /\ req["r1"].computedAt = 120001
    /\ Written("r1").startedTime = Some(0)
    /\ Written("r1").isExpired

\* an update that has answered 200 and supplied neither startedTime nor duration
UpdatedWithoutWindow(p) ==
    /\ Done(p, "todoUpdate")
    /\ resp[p].status = 200
    /\ req[p].data.startedTime = None
    /\ req[p].data.duration = None

\* the supplied fields are written; title, completed, tags keep the fetched
\* value when not supplied; startedTime, duration, userId, createdAt keep it
AppliesOnlySupplied(data, before, after) ==
    /\ after.id = before.id
    /\ after.title = (IF IsSome(data.title) THEN Val(data.title) ELSE before.title)
    /\ after.completed = (IF IsSome(data.completed) THEN Val(data.completed) ELSE before.completed)
    /\ after.tags = (IF IsSome(data.tags) THEN Val(data.tags) ELSE before.tags)
    /\ after.startedTime = before.startedTime
    /\ after.duration = before.duration
    /\ after.userId = before.userId
    /\ after.createdAt = before.createdAt

C17_UnknownTodoIdFailsBeforeAnyWrite ==
    [][\A p \in Procs :
          (/\ pc[p] = "idle"
           /\ req'[p].op \in {"todoFindById", "todoUpdate", "todoDelete"}
           /\ TodoOf(req'[p].id) = {})
          => /\ pc'[p] = "done"
             /\ resp'[p].threw = "NotFoundError"
             /\ resp'[p].status = 404
             /\ ~resp'[p].success
             /\ todos' = todos
             /\ users' = users]_vars

\* an update refused for an id that no todo has, while another todo is stored
C17_Witness ==
    /\ Done("r1", "todoUpdate")
    /\ resp["r1"].threw = "NotFoundError"
    /\ TodoOf(req["r1"].id) = {}
    /\ todos # {}

\* C22: the message of the NotFoundError raised for a todo that is missing
\* holds the resource label and the identifier looked up, for every
\* identifier the path parameter accepts, 0 included
C22_NotFoundMessageNamesTheId ==
    \A p \in Procs :
        (/\ pc[p] = "done"
         /\ req[p].op \in {"todoFindById", "todoUpdate", "todoDelete"}
         /\ resp[p].threw = "NotFoundError")
        => /\ resp[p].message[1] = "Todo"
           /\ Len(resp[p].message) = 4
           /\ resp[p].message[3] = req[p].id

(***************************************************************************)
(* Reads, updates and deletes of one todo in flight together.              *)
(***************************************************************************)
UpdateRaceCreateInputs ==
    {[title |-> "Read book", completed |-> None, userId |-> None, startedTime |-> Some(0),
      duration |-> Some(1), tags |-> None]}

\* PATCH /todos/:id bodies: a longer duration, or completed alone
UpdateRaceInputs ==
    {[title |-> None, completed |-> f[1], startedTime |-> None, duration |-> f[2], tags |-> None] :
        f \in {<<None, Some(2)>>, <<Some(TRUE), None>>}}

UpdateRaceNext ==
    \/ Tick(ServiceInstants)
    \/ \E p \in Procs :
        \/ Finish(p)
        \/ \E data \in UpdateRaceCreateInputs :
              nextTodoId <= MaxUpdateTodos /\ TodoCreate_Start(p, data)
        \/ TodoCreate_Insert(p)
        \/ \E id \in 1..MaxUpdateTodos : TodoFindById_Start(p, id)
        \/ \E id \in 1..MaxUpdateTodos, data \in UpdateRaceInputs : TodoUpdate_Start(p, id, data)
        \/ \E id \in 1..MaxUpdateTodos : TodoDelete_Start(p, id)
        \/ TodoFindById_Correct(p)
        \/ TodoUpdate_Write(p)
        \/ TodoDelete_Write(p)

SpecUpdateRace == Init /\ [][UpdateRaceNext]_vars

\* C26: the correction write of a read takes no lock and looks at nothing it
\* loaded: whatever is stored under the id when it lands, an update of another
\* request included, it sets the flag to the value computed from the fields
\* the read loaded and leaves the rest (last write wins)
C26_CorrectionWriteLandsLast ==
    [][\A p \in Procs :
          (/\ pc[p] = "todoFindById_correct"
           /\ pc'[p] # pc[p]
           /\ TodoOf(req[p].id) # {})
          => /\ req[p].isExpired = WindowEnded(req[p].todo, req[p].at)
             /\ \E old \in TodoOf(req[p].id) :
                   todos' = (todos \ {old}) \cup {[old EXCEPT !.isExpired = req[p].isExpired]}]_vars

\* a read loaded the todo, an update then stored a longer duration with the
\* flag recomputed to false, and the read's write set the flag to true again,
\* the value of the window the read had loaded
C26_Witness ==
    /\ Done("r1", "todoFindById")
    /\ resp["r1"].status = 200
    /\ Done("r2", "todoUpdate")
    /\ resp["r2"].status = 200
    /\ ~resp["r2"].data.isExpired
    /\ resp["r2"].data.duration = Some(2)
    /\ req["r1"].todo.duration = Some(1)
    /\ req["r1"].isExpired
    /\ Written("r1").duration = Some(2)
    /\ Written("r1").isExpired
    /\ ~WindowEnded(Written("r1"), now)

\* C27: an update whose todo a delete removes between the update's check and
\* one of its writes is answered 404, the store's missing-record code
\* translated, and nothing is stored by the write that failed
C27_UpdateOfDeletedTodoIs404 ==
    [][\A p \in Procs :
          (/\ pc[p] \in {"todoFindById_correct", "todoUpdate_write"}
           /\ req[p].op = "todoUpdate"
           /\ pc'[p] # pc[p]
           /\ TodoOf(req[p].id) = {})
          => /\ pc'[p] = "done"
             /\ resp'[p].status = 404
             /\ resp'[p].threw = "PrismaClientKnownRequestError"
             /\ resp'[p].code = "P2025"
             /\ todos' = todos]_vars

\* an update answered 404 at its write, the delete of the other request
\* answered 204
C27_Witness ==
    /\ Done("r1", "todoUpdate")
    /\ resp["r1"].status = 404
    /\ resp["r1"].threw = "PrismaClientKnownRequestError"
    /\ req["r1"].updateRequest # None
    /\ Done("r2", "todoDelete")
    /\ resp["r2"].status = 204
    /\ todos = {}

(***************************************************************************)
(* Every operation of the todo service, a request that reads or deletes    *)
(* in flight together with one that creates or updates.                    *)
(***************************************************************************)
\* POST /todos bodies: a start alone, or a start and a duration
FlagCreateInputs ==
    {[title |-> "Read book", completed |-> None, userId |-> None, startedTime |-> Some(0),
      duration |-> d, tags |-> None] : d \in {None, Some(1)}}

\* PATCH /todos/:id bodies: a duration, or a later start
FlagUpdateInputs ==
    {[title |-> None, completed |-> None, startedTime |-> f[1], duration |-> f[2], tags |-> None] :
        f \in {<<None, Some(1)>>, <<Some(60000), None>>}}

FlagNext ==
    \/ Tick(ServiceInstants)
    \/ \E p \in Procs : Finish(p)
    \/ \E data \in FlagCreateInputs :
          nextTodoId <= MaxUpdateTodos /\ TodoCreate_Start("r2", data)
    \/ TodoCreate_Insert("r2")
    \/ \E id \in 1..MaxUpdateTodos, data \in FlagUpdateInputs : TodoUpdate_Start("r2", id, data)
    \/ TodoUpdate_Write("r2")
    \/ \E id \in 1..MaxUpdateTodos : TodoFindById_Start("r1", id)
    \/ \E id \in 1..MaxUpdateTodos : TodoDelete_Start("r1", id)
    \/ \E p \in Procs : TodoFindById_Correct(p)
    \/ TodoDelete_Write("r1")
    \/ \E filters \in RaceListInputs : TodoFindAll_StartFindMany("r1", filters)
    \/ \E filters \in RaceListInputs : TodoFindAll_StartCount("r1", filters)
    \/ TodoFindAll_Count("r1", ServiceInstants)
    \/ TodoFindAll_FindMany("r1", ServiceInstants)
    \/ TodoFindAll_Correct("r1")

SpecFlag == Init /\ [][FlagNext]_vars

\* C28: in every reachable state a stored todo whose isExpired is true has
\* both startedTime and duration, and no step takes the startedTime or the
\* duration away from a todo that stays stored
C28_ExpiredFlagNeedsBothFields ==
    /\ [](\A t \in todos : t.isExpired => (IsSome(t.startedTime) /\ IsSome(t.duration)))
    /\ [][\A old \in todos, new \in todos' :
             old.id = new.id =>
                /\ IsSome(old.startedTime) => IsSome(new.startedTime)
                /\ IsSome(old.duration) => IsSome(new.duration)]_vars

\* a todo created without a duration, stored as expired once an update has
\* given it one
C28_Witness ==
    /\ Done("r2", "todoUpdate")
    /\ resp["r2"].status = 200
    /\ req["r2"].todo.duration = None
    /\ ~req["r2"].todo.isExpired
    /\ Written("r2").isExpired
    /\ Written("r2").duration = Some(1)

\* the operation of the request of p that takes a step
Stepping(p) == IF pc[p] = "idle" THEN req'[p] ELSE req[p]

\* C29: a step of a read (the todo listing or the fetch by id), its
\* correction write included, changes nothing but the isExpired field of
\* stored todos, for the fetch by id of the todo fetched only: every other
\* field of every todo, the set of todos and the users are unchanged
C29_ReadWritesOnlyTheFlag ==
    [][\A p \in Procs :
          (/\ pc'[p] # pc[p] \/ req'[p] # req[p]
           /\ Stepping(p).op \in {"todoFindById", "todoFindAll"})
          => /\ users' = users
             /\ nextTodoId' = nextTodoId
             /\ Cardinality(todos') = Cardinality(todos)
             /\ \A new \in todos' :
                   \E old \in todos :
                      /\ new = [old EXCEPT !.isExpired = new.isExpired]
                      /\ (Stepping(p).op = "todoFindById" /\ old.id # Stepping(p).id) => new = old]_vars

\* a fetch by id that has stored the corrected flag of its todo
C29_Witness ==
    /\ Done("r1", "todoFindById")
    /\ resp["r1"].status = 200
    /\ ~req["r1"].todo.isExpired
    /\ Written("r1") = [req["r1"].todo EXCEPT !.isExpired = TRUE]

(***************************************************************************)
(* Todos created for a user while users are created and deleted, two       *)
(* requests in flight.                                                     *)
(***************************************************************************)
\* POST /todos bodies with a userId
OwnerTodoInputs ==
    {[title |-> "Read book", completed |-> None, userId |-> Some(u), startedTime |-> None,
      duration |-> None, tags |-> None] : u \in UserIds}

OwnerRaceNext ==
    \E p \in Procs :
        \/ Finish(p)
        \/ \E data \in UserCreateInputs : nextUserId <= MaxUsers /\ UserCreate_Start(p, data)
        \/ UserCreate_Insert(p)
        \/ \E id \in UserIds : UserDelete_Start(p, id)
        \/ UserDelete_Write(p)
        \/ \E data \in OwnerTodoInputs : nextTodoId <= MaxTodos /\ TodoCreate_Start(p, data)
        \/ TodoCreate_Insert(p)

SpecOwnerRace == Init /\ [][OwnerRaceNext]_vars

\* C30: under every interleaving of todo creations for a user with deletions
\* of that user, every stored todo with a userId belongs to a stored user, and
\* an insert that finds its user gone fails and stores nothing
C30_NoTodoOfADeletedUser ==
    /\ [](\A t \in todos : IsSome(t.userId) => UserOf(Val(t.userId)) # {})
    /\ [][\A p \in Procs :
             (/\ pc[p] = "todoCreate_insert"
              /\ pc'[p] # pc[p]
              /\ UserOf(Val(req[p].data.userId)) = {})
             => /\ pc'[p] = "done"
                /\ ~resp'[p].success
                /\ resp'[p].status = 404
                /\ todos' = todos
                /\ nextTodoId' = nextTodoId]_vars

\* a creation that passed its user check and lost at the insert to the delete
\* of the user, which also removed the todo created for that user before
C30_Witness ==
    /\ Done("r1", "todoCreate")
    /\ resp["r1"].threw = "PrismaClientKnownRequestError"
    /\ Done("r2", "userDelete")
    /\ resp["r2"].status = 204
    /\ req["r2"].id = Val(req["r1"].data.userId)
    /\ nextTodoId = 2
    /\ todos = {}

(***************************************************************************)
(* The error responses on their own, in each environment the server runs   *)
(* in: an error a handler or a middleware passes to errorHandler, a        *)
(* request body validateRequest rejects, a route nothing matches, a        *)
(* request the rate limiter refuses, and the health check.  The fields     *)
(* message, code, stack and details of a response are those of the body's  *)
(* error object; a body without an error object has none of them.          *)
(***************************************************************************)
\* EnvironmentEnum
Environments == {"development", "production", "test"}

\* new AppError(statusCode, message)
AppError(statusCode, message) ==
    [kind |-> "AppError", statusCode |-> statusCode, code |-> "", message |-> <<message>>]

\* new ValidationError(message, details): an AppError with status 400
ValidationError(message) ==
    [kind |-> "ValidationError", statusCode |-> 400, code |-> "", message |-> <<message>>]

\* what the store client raises for a query whose arguments it rejects
PrismaClientValidationError ==
    [kind |-> "PrismaClientValidationError", statusCode |-> 0, code |-> "",
     message |-> <<"Argument title is missing">>]

\* what the store client raises when it cannot reach the database
PrismaClientInitializationError ==
    [kind |-> "PrismaClientInitializationError", statusCode |-> 0, code |-> "",
     message |-> <<"Can't reach database server at localhost:5432">>]

\* any other Error
Error(message) == [kind |-> "Error", statusCode |-> 0, code |-> "", message |-> <<message>>]

\* the errors a handler passes on, one or more of each class; P2003 is a code
\* of the store client the handler has no branch for
ThrownErrors ==
    {AppError(403, "Forbidden"),
     ValidationError("Email is required"),
     NotFoundError("Todo", 1),
     ConflictError("User with this email already exists"),
     PrismaClientKnownRequestError("P2002"),
     PrismaClientKnownRequestError("P2025"),
     PrismaClientKnownRequestError("P2003"),
     PrismaClientValidationError,
     PrismaClientInitializationError,
     Error("connect ECONNREFUSED 127.0.0.1:5432"),
     TypeError}

InitErrors ==
    /\ users = {}
    /\ todos = {}
    /\ nextUserId = 1
    /\ nextTodoId = 1
    /\ now = 0
    /\ nodeEnv \in Environments
    /\ pc = [p \in Procs |-> "idle"]
    /\ req = [p \in Procs |-> NoRequest]
    /\ resp = [p \in Procs |-> NoResponse]

\* createAsyncHandler: a handler rejects with error, which goes to errorHandler
createAsyncHandler_Catch(p, error) ==
    /\ CanStart(p)
    /\ Throw(p, [op |-> "throw", error |-> error], error)
    /\ UNCHANGED <<users, todos, nextUserId, nextTodoId, now, nodeEnv>>

\* updateTodoSchema's refinement of the body: at least one field is provided
UpdateTodoSchemaAccepts(data) == data # NoData

\* validateRequest(updateTodoSchema) for a body the schema rejects: the
\* ZodError becomes a ValidationError and goes to errorHandler
validateRequest_Reject(p, data) ==
    /\ CanStart(p)
    /\ ~UpdateTodoSchemaAccepts(data)
    /\ Throw(p, [op |-> "validateRequest", error |-> ValidationError("Validation failed")],
             ValidationError("Validation failed"))
    /\ UNCHANGED <<users, todos, nextUserId, nextTodoId, now, nodeEnv>>

\* notFoundHandler: no route matches the request
notFoundHandler(p, method, path) ==
    /\ CanStart(p)
    /\ Respond(p, [op |-> "notFound"],
               [status |-> 404, success |-> FALSE, threw |-> "none",
                message |-> <<"Route", method, path, "not found">>])
    /\ UNCHANGED <<users, todos, nextUserId, nextTodoId, now, nodeEnv>>

\* the rate limiter refuses a request of an address that has used up its
\* window (the count is the library's; whether it is reached is open here)
limiter_Reject(p) ==
    /\ CanStart(p)
    /\ Respond(p, [op |-> "rateLimit"],
               [status |-> 429, success |-> FALSE, threw |-> "none",
                message |-> <<"Too many requests from this IP, please try again later.">>])
    /\ UNCHANGED <<users, todos, nextUserId, nextTodoId, now, nodeEnv>>

\* GET /health: SELECT 1 succeeds or fails
HealthCheck(p, connected) ==
    /\ CanStart(p)
    /\ Respond(p, [op |-> "health"],
               IF connected
               THEN [status |-> 200, success |-> TRUE, threw |-> "none", health |-> "healthy",
                     timestamp |-> now, database |-> "connected"]
               ELSE [status |-> 503, success |-> FALSE, threw |-> "none", health |-> "unhealthy",
                     timestamp |-> now, database |-> "disconnected"])
    /\ UNCHANGED <<users, todos, nextUserId, nextTodoId, now, nodeEnv>>

ErrorsNext ==
    \E p \in Procs :
        \/ Finish(p)
        \/ \E error \in ThrownErrors : createAsyncHandler_Catch(p, error)
        \/ validateRequest_Reject(p, NoData)
        \/ \E path \in {"/", "/api/v1/nothing"} : notFoundHandler(p, "GET", path)
        \/ limiter_Reject(p)
        \/ \E connected \in BOOLEAN : HealthCheck(p, connected)

SpecErrors == InitErrors /\ [][ErrorsNext]_vars

\* the request of p ended in errorHandler
Handled(p) == pc[p] = "done" /\ req[p].op \in {"throw", "validateRequest"}

\* C18 (as stated): the error handler answers a ValidationError with 400, a
\* NotFoundError with 404, a ConflictError with 409, the store's unique
\* violation with 409, the store's missing record with 404, and every other
\* error with 500
C18_StatusOfEachErrorKind ==
    \A p \in Procs :
        Handled(p) =>
            LET error == req[p].error
            IN  resp[p].status =
                    CASE error.kind = "ValidationError" -> 400
                      [] error.kind = "NotFoundError" -> 404
                      [] error.kind = "ConflictError" -> 409
                      [] error.kind = "PrismaClientKnownRequestError" /\ error.code = "P2002" -> 409
                      [] error.kind = "PrismaClientKnownRequestError" /\ error.code = "P2025" -> 404
                      [] OTHER -> 500

\* C18 (amended): as stated for those five kinds; besides, the store client's
\* validation error is answered with 400 and any other AppError with the
\* status it carries; every error that is none of these is answered with 500
C18_StatusOfEachErrorKindAmended ==
    \A p \in Procs :
        Handled(p) =>
            LET error == req[p].error
            IN  resp[p].status =
                    CASE error.kind = "ValidationError" -> 400
                      [] error.kind = "NotFoundError" -> 404
                      [] error.kind = "ConflictError" -> 409
                      [] error.kind = "PrismaClientKnownRequestError" /\ error.code = "P2002" -> 409
                      [] error.kind = "PrismaClientKnownRequestError" /\ error.code = "P2025" -> 404
                      [] error.kind = "PrismaClientValidationError" -> 400
                      [] error.kind = "AppError" -> error.statusCode
                      [] OTHER -> 500

\* one request answered 400 for the store client's validation error, the
\* other answered 500 for a code of the store client without a branch
C18_Witness ==
    /\ Handled("r1")
    /\ req["r1"].error = PrismaClientValidationError
    /\ resp["r1"].status = 400
    /\ Handled("r2")
    /\ req["r2"].error = PrismaClientKnownRequestError("P2003")
    /\ resp["r2"].status = 500

\* the errors errorHandler has no branch for
Unclassified(error) ==
    /\ ~IsAppError(error)
    /\ error.kind # "PrismaClientValidationError"
    /\ ~(error.kind = "PrismaClientKnownRequestError" /\ error.code \in {"P2002", "P2025"})

\* C19: for an unclassified error the message of the response is the generic
\* string in every environment other than development
C19_MessageSuppressedOutsideDevelopment ==
    \A p \in Procs :
        (Handled(p) /\ Unclassified(req[p].error) /\ nodeEnv # "development")
            => resp[p].message = <<"Internal server error">>

\* C20: every error response has success = false and an error object with a
\* message, whichever part of the service produced it
C20_ErrorResponsesShareStructure ==
    \A p \in Procs :
        (pc[p] = "done" /\ resp[p].status >= 400)
            => /\ ~resp[p].success
               /\ "message" \in DOMAIN resp[p]

\* the errors that come from the store client
StoreError(error) ==
    error.kind \in {"PrismaClientKnownRequestError", "PrismaClientValidationError",
                    "PrismaClientInitializationError"}

\* the messages errorHandler writes itself
FixedMessages ==
    {<<"A record with this value already exists">>, <<"Record not found">>,
     <<"Invalid input data">>, <<"Internal server error">>}

\* C21: in production the response to a store error (a known request error
\* of any code, a validation error, a failure to connect) has one of the
\* handler's fixed strings as its message, and neither details nor a stack
C21_NoStoreTextInProduction ==
    \A p \in Procs :
        (nodeEnv = "production" /\ Handled(p) /\ StoreError(req[p].error))
            => /\ resp[p].message \in FixedMessages
               /\ resp[p].message # req[p].error.message
               /\ ~resp[p].details
               /\ ~resp[p].stack

\* in production, a known request error with a code the handler has no
\* branch for, and a failure to connect, both answered with the generic string
C21_Witness ==
    /\ nodeEnv = "production"
    /\ Handled("r1")
    /\ req["r1"].error = PrismaClientKnownRequestError("P2003")
    /\ resp["r1"].message = <<"Internal server error">>
    /\ Handled("r2")
    /\ req["r2"].error = PrismaClientInitializationError
    /\ resp["r2"].message = <<"Internal server error">>

(***************************************************************************)
(* Titles.  A title is the sequence of its characters.  The body schemas   *)
(* declare title as z.string().min(1).max(500).trim(): the checks of a     *)
(* string schema run in the order they are declared, each on the value the *)
(* one before it left, so the two length checks see the title as sent and  *)
(* trim() then replaces it by the trimmed one.                             *)
(***************************************************************************)
MaxTitleLen == 2
TitleMax == 500

Whitespace == {" "}
TitleChars == {" ", "a"}

RECURSIVE SeqsUpTo(_, _)
SeqsUpTo(chars, n) ==
    IF n = 0 THEN {<<>>}
    ELSE LET shorter == SeqsUpTo(chars, n - 1)
         IN  shorter \cup {Append(t, c) : t \in shorter, c \in chars}

\* the titles a client sends
Titles == SeqsUpTo(TitleChars, MaxTitleLen)

RECURSIVE TrimStart(_)
TrimStart(title) ==
    IF title # <<>> /\ Head(title) \in Whitespace THEN TrimStart(Tail(title)) ELSE title

RECURSIVE TrimEnd(_)
TrimEnd(title) ==
    IF title # <<>> /\ title[Len(title)] \in Whitespace
    THEN TrimEnd(SubSeq(title, 1, Len(title) - 1))
    ELSE title

\* String.prototype.trim
Trim(title) == TrimEnd(TrimStart(title))

\* z.string().min(1).max(500).trim(): the parsed title, or None when a check fails
TitleSchema(title) ==
    IF Len(title) >= 1 /\ Len(title) <= TitleMax THEN Some(Trim(title)) ELSE None

\* validateRequest: the ZodError becomes a ValidationError for errorHandler
validateRequest_Fail(p) ==
    /\ CanStart(p)
    /\ Throw(p, [op |-> "validateRequest", error |-> ValidationError("Validation failed")],
             ValidationError("Validation failed"))
    /\ UNCHANGED <<users, todos, nextUserId, nextTodoId, now, nodeEnv>>

\* POST /todos: validateRequest(createTodoSchema), then TodoService.create
\* with the parsed body
PostTodo(p, body) ==
    IF TitleSchema(body.title) = None
    THEN validateRequest_Fail(p)
    ELSE TodoCreate_Start(p, [body EXCEPT !.title = Val(TitleSchema(body.title))])

\* PATCH /todos/:id with a title: validateRequest(updateTodoSchema), then
\* TodoService.update with the parsed body
PatchTodo(p, id, body) ==
    IF TitleSchema(Val(body.title)) = None
    THEN validateRequest_Fail(p)
    ELSE TodoUpdate_Start(p, id, [body EXCEPT !.title = TitleSchema(Val(body.title))])

TitleCreateInputs ==
    {[title |-> title, completed |-> None, userId |-> None, startedTime |-> None,
      duration |-> None, tags |-> None] : title \in Titles}

TitleUpdateInputs ==
    {[title |-> Some(title), completed |-> None, startedTime |-> None, duration |-> None,
      tags |-> None] : title \in Titles}

TitlesNext ==
    \E p \in Procs :
        \/ Finish(p)
        \/ \E body \in TitleCreateInputs : nextTodoId <= MaxUpdateTodos /\ PostTodo(p, body)
        \/ TodoCreate_Insert(p)
        \/ \E id \in 1..MaxUpdateTodos, body \in TitleUpdateInputs : PatchTodo(p, id, body)
        \/ TodoUpdate_Write(p)

SpecTitles == Init /\ [][TitlesNext]_vars

\* C23: a title is accepted by create and by update only if it has between 1
\* and 500 characters after trimming, so that after any sequence of requests
\* every stored todo has a title of 1 to 500 characters, none an empty one
C23_NoEmptyTitleStored == \A t \in todos : Len(t.title) >= 1 /\ Len(t.title) <= TitleMax

(***************************************************************************)
(* The life of the process: app.listen and its callback, requests, and     *)
(* handleShutdown.  Besides the requests, pc holds the state of the HTTP   *)
(* server, of the database connection, of the process and of the timer     *)
(* handleShutdown sets.  The timer fires 10 seconds after it is set:       *)
(* what the shutdown completes within that time is what happens before     *)
(* Timeout.                                                                *)
(***************************************************************************)
Components == {"server", "database", "process", "timer"}

InitLifecycle ==
    /\ users = {}
    /\ todos = {}
    /\ nextUserId = 1
    /\ nextTodoId = 1
    /\ now = 0
    /\ nodeEnv = "development"
    /\ pc = [c \in Procs \cup Components |->
                CASE c = "server" -> "starting"
                  [] c = "database" -> "unconnected"
                  [] c = "process" -> "running"
                  [] c = "timer" -> "unset"
                  [] OTHER -> "idle"]
    /\ req = [p \in Procs |-> NoRequest]
    /\ resp = [p \in Procs |-> NoResponse]

Running == pc["process"] = "running"

\* app.listen(env.PORT, callback): the server listens and the callback starts
\* connectDatabase
Listen ==
    /\ Running
    /\ pc["server"] = "starting"
    /\ pc' = [pc EXCEPT !["server"] = "listening", !["database"] = "connecting"]
    /\ UNCHANGED <<users, todos, nextUserId, nextTodoId, now, nodeEnv, req, resp>>

\* await prisma.$connect() resolves
connectDatabase_Done ==
    /\ Running
    /\ pc["database"] = "connecting"
    /\ pc' = [pc EXCEPT !["database"] = "connected"]
    /\ UNCHANGED <<users, todos, nextUserId, nextTodoId, now, nodeEnv, req, resp>>

\* await prisma.$connect() rejects: process.exit(1)
connectDatabase_Fail ==
    /\ Running
    /\ pc["database"] = "connecting"
    /\ pc' = [pc EXCEPT !["database"] = "unconnected", !["process"] = "exit1"]
    /\ UNCHANGED <<users, todos, nextUserId, nextTodoId, now, nodeEnv, req, resp>>

\* a request the listening server accepts, here GET /health
Accept(p, connected) ==
    /\ Running
    /\ pc["server"] = "listening"
    /\ HealthCheck(p, connected)

\* a request the listening server accepts and no route matches
AcceptUnmatched(p, path) ==
    /\ Running
    /\ pc["server"] = "listening"
    /\ notFoundHandler(p, "GET", path)

\* the response is written and the connection ends
Sent(p) == Running /\ Finish(p)

handleShutdownDisconnectsAtOnce ==
    /\ Running
    /\ pc["server"] = "listening"
    /\ pc["timer"] = "unset"
    /\ pc' = [pc EXCEPT !["server"] = "closing", !["timer"] = "armed",
                        !["database"] = "disconnecting"]
    /\ UNCHANGED <<users, todos, nextUserId, nextTodoId, now, nodeEnv, req, resp>>

\* SIGTERM or SIGINT: server.close(callback) stops the server accepting, and
\* setTimeout(..., 10000) is set
handleShutdown ==
    /\ Running
    /\ pc["server"] = "listening"
    /\ pc["timer"] = "unset"
    /\ pc' = [pc EXCEPT !["server"] = "closing", !["timer"] = "armed"]
    /\ UNCHANGED <<users, todos, nextUserId, nextTodoId, now, nodeEnv, req, resp>>

\* the callback of server.close: every connection has ended, the server is
\* closed; disconnectDatabase starts
server_Closed ==
    /\ Running
    /\ pc["server"] = "closing"
    /\ \A p \in Procs : pc[p] = "idle"
    /\ pc' = [pc EXCEPT !["server"] = "closed", !["database"] = "disconnecting"]
    /\ UNCHANGED <<users, todos, nextUserId, nextTodoId, now, nodeEnv, req, resp>>

\* disconnectDatabase resolves: process.exit(0)
disconnectDatabase_Done ==
    /\ Running
    /\ pc["database"] = "disconnecting"
    /\ pc' = [pc EXCEPT !["database"] = "disconnected", !["process"] = "exit0"]
    /\ UNCHANGED <<users, todos, nextUserId, nextTodoId, now, nodeEnv, req, resp>>

\* disconnectDatabase rejects: process.exit(1)
disconnectDatabase_Fail ==
    /\ Running
    /\ pc["database"] = "disconnecting"
    /\ pc' = [pc EXCEPT !["process"] = "exit1"]
    /\ UNCHANGED <<users, todos, nextUserId, nextTodoId, now, nodeEnv, req, resp>>

\* the timer fires: process.exit(1)
Timeout ==
    /\ Running
    /\ pc["timer"] = "armed"
    /\ pc' = [pc EXCEPT !["timer"] = "fired", !["process"] = "exit1"]
    /\ UNCHANGED <<users, todos, nextUserId, nextTodoId, now, nodeEnv, req, resp>>

LifecycleNext ==
    \/ Listen
    \/ connectDatabase_Done
    \/ connectDatabase_Fail
    \/ \E p \in Procs, connected \in BOOLEAN : Accept(p, connected)
    \/ \E p \in Procs, path \in {"/", "/favicon.ico"} : AcceptUnmatched(p, path)
    \/ \E p \in Procs : Sent(p)
    \/ handleShutdown
    \/ server_Closed
    \/ disconnectDatabase_Done
    \/ disconnectDatabase_Fail
    \/ Timeout

SpecLifecycle == InitLifecycle /\ [][LifecycleNext]_vars

\* the timer of a running process fires when its time has come
SpecShutdown == SpecLifecycle /\ WF_vars(Timeout)

\* C24: after SIGTERM or SIGINT the database is disconnected only when the
\* HTTP server has closed, the process exits with code 0 only when the
\* database is disconnected, the timer that fires forces the exit with code
\* 1, and the process always eventually exits
C24_ShutdownInOrderAndExits ==
    /\ [](pc["database"] \in {"disconnecting", "disconnected"} => pc["server"] = "closed")
    /\ [](pc["process"] = "exit0" => (pc["server"] = "closed" /\ pc["database"] = "disconnected"))
    /\ [](pc["timer"] = "fired" => pc["process"] = "exit1")
    /\ [](pc["server"] \in {"closing", "closed"} => pc["timer"] # "unset")
    /\ (pc["timer"] = "armed" ~> pc["process"] # "running")

\* a shutdown that completed before the timer fired
C24_Witness ==
    /\ pc["process"] = "exit0"
    /\ pc["timer"] = "armed"
    /\ pc["server"] = "closed"
    /\ pc["database"] = "disconnected"

\* C25: no request is handled while connectDatabase has not completed
C25_NoRequestBeforeDatabaseConnected ==
    \A p \in Procs : pc[p] # "idle" => pc["database"] # "connecting"

(***************************************************************************)
(* The evaluator on its own: a caller applies it to any pair of optional   *)
(* inputs at any reading of the clock.                                     *)
(***************************************************************************)
EvalInstants == {0, 59999, 60000, 60001, 119999, 120000, 120001}
EvalStartedTimes == {None, Some(0), Some(60000)}
EvalDurations == {None, Some(1), Some(2)}

Evaluate(p, startedTime, duration) ==
    /\ req' = [req EXCEPT ![p] = [op |-> "calculateExpiration", startedTime |-> startedTime,
                                  duration |-> duration, at |-> now]]
    /\ resp' = [resp EXCEPT ![p] = [status |-> 0,
                                    outcome |-> calculateExpiration(startedTime, duration, now)]]
    /\ pc' = [pc EXCEPT ![p] = "done"]
    /\ UNCHANGED <<users, todos, nextUserId, nextTodoId, now, nodeEnv>>

EvalNext ==
    \/ Tick(EvalInstants)
    \/ \E s \in EvalStartedTimes, d \in EvalDurations : Evaluate("r1", s, d)

SpecEval == Init /\ [][EvalNext]_vars

Evaluated(p) == pc[p] = "done" /\ req[p].op = "calculateExpiration"

\* C1: whenever startedTime or duration is absent, the evaluator returns false at
\* every reading of the clock, and it never raises an error.
C1_AbsentInputNeverExpired ==
    \A p \in Procs : Evaluated(p) =>
        /\ resp[p].outcome # "TypeError"
        /\ (req[p].startedTime = None \/ req[p].duration = None) => resp[p].outcome = "false"

C1_Witness ==
    \E p \in Procs : /\ Evaluated(p)
                     /\ req[p].startedTime = None
                     /\ req[p].duration = Some(1)
                     /\ req[p].at = 120001
                     /\ resp[p].outcome = "false"

\* C2: with startedTime T and duration D minutes both present, the evaluator
\* returns false while now <= T + D minutes and true once now > T + D minutes;
\* at exactly T + D minutes the todo is not expired.
C2_ExpiredStrictlyAfterWindow ==
    \A p \in Procs : (Evaluated(p) /\ IsSome(req[p].startedTime) /\ IsSome(req[p].duration)) =>
        LET deadline == Val(req[p].startedTime) + Val(req[p].duration) * 60000
        IN  /\ req[p].at <= deadline => resp[p].outcome = "false"
            /\ req[p].at > deadline => resp[p].outcome = "true"

C2_Witness ==
    \E p \in Procs : /\ Evaluated(p)
                     /\ req[p].startedTime = Some(60000)
                     /\ req[p].duration = Some(1)
                     /\ req[p].at = 120000
                     /\ resp[p].outcome = "false"

====
